---- MODULE Spec2Model ----
(***************************************************************************)
(* Model of src/reconstruct_bind_mesh.py: inverse linear-blend-skinning    *)
(* reconstruction of a bind mesh inside a Maya scene.                      *)
(*                                                                         *)
(* The scene (meshes, skin clusters, the joints' animated world matrices   *)
(* and the timeline cursor) is the state; reconstruct_bind_mesh is run     *)
(* once, as the sequence of its statements, by a program counter pc.       *)
(* Numbers are exact rationals: a scalar is a pair <<n, d>> in lowest      *)
(* terms, a 4x4 matrix is 16 integers (row-major, as MMatrix's list        *)
(* constructor takes them) over one common denominator.                    *)
(***************************************************************************)
EXTENDS Integers, Sequences, FiniteSets, TLC

(***************************************************************************)
(* Bounds and program constants                                            *)
(***************************************************************************)
NumVerts == 2

bind_pose_time == 0
ref_time == 30

(***************************************************************************)
(* Exact arithmetic                                                        *)
(***************************************************************************)
Abs(a) == IF a < 0 THEN -a ELSE a

RECURSIVE Gcd(_, _)
Gcd(a, b) == IF b = 0 THEN a ELSE Gcd(b, a % b)

\* the rational n/d in lowest terms with a positive denominator
Rat(n, d) ==
    LET g == Gcd(Abs(n), Abs(d))
        s == IF d < 0 THEN -1 ELSE 1
    IN  <<(s * n) \div g, (s * d) \div g>>

RInt(n) == <<n, 1>>
RMul(a, b) == Rat(a[1] * b[1], a[2] * b[2])
RAdd(a, b) == Rat(a[1] * b[2] + b[1] * a[2], a[2] * b[2])
RDiv(a, b) == Rat(a[1] * b[2], a[2] * b[1])

RECURSIVE GcdSeq(_, _)
GcdSeq(s, k) == IF k = 0 THEN 0 ELSE Gcd(GcdSeq(s, k - 1), Abs(s[k]))

\* the 16 entries k |-> e(k) as a tuple
Tuple16(f) ==
    <<f[1], f[2], f[3], f[4], f[5], f[6], f[7], f[8],
      f[9], f[10], f[11], f[12], f[13], f[14], f[15], f[16]>>

\* a matrix record in canonical form: entries and denominator share no factor
Canon(n, d) ==
    LET t == Tuple16(n)
        g == Gcd(GcdSeq(t, 16), Abs(d))
        s == IF d < 0 THEN -1 ELSE 1
    IN  [n |-> Tuple16([k \in 1..16 |-> (s * t[k]) \div g]), d |-> (s * d) \div g]

\* om.MMatrix(list of 16 numbers)
MMatrix(s) == Canon(s, 1)

At(m, r, c) == m[4 * (r - 1) + c]

\* MMatrix * MMatrix
MatMul(a, b) ==
    Canon([k \in 1..16 |->
              LET r == ((k - 1) \div 4) + 1
                  c == ((k - 1) % 4) + 1
              IN  At(a.n, r, 1) * At(b.n, 1, c) + At(a.n, r, 2) * At(b.n, 2, c)
                + At(a.n, r, 3) * At(b.n, 3, c) + At(a.n, r, 4) * At(b.n, 4, c)],
          a.d * b.d)

\* MMatrix + MMatrix (the += of the blend)
MatAdd(a, b) ==
    Canon([k \in 1..16 |-> a.n[k] * b.d + b.n[k] * a.d], a.d * b.d)

\* float * MMatrix
MatScale(w, a) == Canon([k \in 1..16 |-> w[1] * a.n[k]], w[2] * a.d)

Others(k) ==
    CASE k = 1 -> <<2, 3, 4>> [] k = 2 -> <<1, 3, 4>>
      [] k = 3 -> <<1, 2, 4>> [] k = 4 -> <<1, 2, 3>>

Det2(n, r1, r2, c1, c2) == At(n, r1, c1) * At(n, r2, c2) - At(n, r1, c2) * At(n, r2, c1)

Det3(n, rs, cs) ==
      At(n, rs[1], cs[1]) * Det2(n, rs[2], rs[3], cs[2], cs[3])
    - At(n, rs[1], cs[2]) * Det2(n, rs[2], rs[3], cs[1], cs[3])
    + At(n, rs[1], cs[3]) * Det2(n, rs[2], rs[3], cs[1], cs[2])

Cofactor(n, r, c) ==
    (IF (r + c) % 2 = 0 THEN 1 ELSE -1) * Det3(n, Others(r), Others(c))

Det4(n) ==
      At(n, 1, 1) * Cofactor(n, 1, 1) + At(n, 1, 2) * Cofactor(n, 1, 2)
    + At(n, 1, 3) * Cofactor(n, 1, 3) + At(n, 1, 4) * Cofactor(n, 1, 4)

IsSingular(m) == Det4(m.n) = 0

\* the inverse of a non-singular matrix: d * adj(n) / det(n)
TrueInverse(m) ==
    LET det == Det4(m.n)
    IN  Canon([k \in 1..16 |->
                  LET r == ((k - 1) \div 4) + 1
                      c == ((k - 1) % 4) + 1
                  IN  m.d * Cofactor(m.n, c, r)],
              det)

Identity == MMatrix(<<1,0,0,0, 0,1,0,0, 0,0,1,0, 0,0,0,1>>)

Zero16 == <<0,0,0,0, 0,0,0,0, 0,0,0,0, 0,0,0,0>>

\* MPoint * MMatrix: the homogeneous row vector <<x, y, z, w>> times the matrix
PointMulAt(p, m, c) ==
    RDiv(RAdd(RAdd(RMul(p[1], RInt(At(m.n, 1, c))), RMul(p[2], RInt(At(m.n, 2, c)))),
              RAdd(RMul(p[3], RInt(At(m.n, 3, c))), RMul(p[4], RInt(At(m.n, 4, c))))),
         RInt(m.d))

PointMul(p, m) ==
    <<PointMulAt(p, m, 1), PointMulAt(p, m, 2), PointMulAt(p, m, 3), PointMulAt(p, m, 4)>>

\* MFnMesh.getPoints: a stored vertex <<x, y, z>> as an MPoint, w = 1
AsMPoint(v) == <<v[1], v[2], v[3], RInt(1)>>

\* MFnMesh.setPoints: the mesh keeps x, y, z of each MPoint; w is not stored
Stored(p) == <<p[1], p[2], p[3]>>

(***************************************************************************)
(* The scene                                                               *)
(***************************************************************************)
None == "None"
\* a node that is not in the scene
NoMesh == [exists |-> FALSE, points |-> <<>>, inputs |-> <<>>]
NoCluster == [exists |-> FALSE, influences |-> <<>>, weights |-> <<>>, geometry |-> None]

InputTransform == "pSphere2"
InputShape == "pSphere2Shape"
DefaultOutput == "pSphere2_bindPoseMesh"
DefaultOutputShape == "pSphere2_bindPoseMeshShape"

Transforms == {InputTransform, DefaultOutput}
ShapeOf(t) == IF t = InputTransform THEN InputShape ELSE DefaultOutputShape
SourceCluster == "skinCluster1"
TargetCluster == "skinCluster2"
Clusters == {SourceCluster, TargetCluster}
Joints == <<"jointA", "jointB">>
Times == {bind_pose_time, ref_time}

\* joint world matrices (row vectors: the translation is the fourth row)
Translate5 == MMatrix(<<1,0,0,0, 0,1,0,0, 0,0,1,0, 0,0,5,1>>)
RotScale == MMatrix(<<0,1,0,0, -1,0,0,0, 0,0,2,0, 3,0,1,1>>)
Flat == MMatrix(<<1,0,0,0, 0,1,0,0, 0,0,0,0, 0,2,0,1>>)

\* <<matrix at bind_pose_time, matrix at ref_time>> of each joint
PosePairsA == {<<Identity, Identity>>, <<Identity, Translate5>>,
               <<RotScale, RotScale>>, <<Flat, Identity>>}
PosePairsB == {<<Identity, Identity>>, <<Translate5, RotScale>>,
               <<RotScale, RotScale>>, <<Flat, Flat>>}

Animations ==
    {[j \in {Joints[1], Joints[2]} |->
        [t \in Times |-> IF j = Joints[1]
                         THEN (IF t = bind_pose_time THEN a[1] ELSE a[2])
                         ELSE (IF t = bind_pose_time THEN b[1] ELSE b[2])]]
     : a \in PosePairsA, b \in PosePairsB}

\* one vertex's weights on <<jointA, jointB>>
WeightRows ==
    << <<RInt(1), RInt(0)>>, <<RInt(0), RInt(1)>>, <<Rat(1, 2), Rat(1, 2)>>,
       <<RInt(0), RInt(0)>>, <<Rat(1, 2), Rat(1, 4)>>, <<RInt(1), RInt(1)>> >>

RECURSIVE Flatten(_, _)
Flatten(rows, k) == IF k = 0 THEN <<>> ELSE Flatten(rows, k - 1) \o rows[k]

\* the flat weight arrays of the source skin cluster: every vertex with the same
\* row, or vertex v with row k + v (cyclically)
WeightTables ==
    {Flatten([v \in 1..NumVerts |-> WeightRows[k]], NumVerts) : k \in 1..Len(WeightRows)}
    \cup
    {Flatten([v \in 1..NumVerts |-> WeightRows[((k + v) % Len(WeightRows)) + 1]], NumVerts)
     : k \in 1..Len(WeightRows)}

SourcePoints == [v \in 1..NumVerts |-> <<RInt(v), RInt(2 * v - 3), RInt(3)>>]
StalePoints == << <<RInt(0), RInt(0), RInt(0)>> >>

\* what listConnections(shape, source=True, destination=False, plugs=True) finds
HistoryPlug == [plug |-> "polySphere1.output", type |-> "polySphere"]
GroupPlug == [plug |-> "groupId1.groupId", type |-> "groupId"]
SkinPlug == [plug |-> "skinCluster1.outputGeometry[0]", type |-> "skinCluster"]

SingularOutcomes == {"raise", "unchanged", "identity"}

VARIABLES
    meshes, skinClusters, currentTime, jointAnim, singularInverse,
    output_mesh, pc, error,
    input_mesh, num_vertices, duplicate_mesh, skin_cluster_name, joints,
    cached_bind_pose, cached_deformed_pose, source_points, weights,
    num_influences, influence_indices, bind_verts, vertex_index, i,
    target_skin_cluster_name,
    pre, timeLog, inverseCalls

scene == <<meshes, skinClusters, currentTime>>
world == <<jointAnim, singularInverse, output_mesh, pre>>
poses == <<joints, cached_bind_pose, cached_deformed_pose>>
loop == <<source_points, weights, num_influences, bind_verts, vertex_index, i>>
vars == <<meshes, skinClusters, currentTime, jointAnim, singularInverse,
          output_mesh, pc, error,
          input_mesh, num_vertices, duplicate_mesh, skin_cluster_name, joints,
          cached_bind_pose, cached_deformed_pose, source_points, weights,
          num_influences, influence_indices, bind_verts, vertex_index, i,
          target_skin_cluster_name,
          pre, timeLog, inverseCalls>>

(***************************************************************************)
(* Scene queries (maya.cmds / OpenMaya)                                    *)
(***************************************************************************)
\* the transform a node name (a transform's or its shape's) belongs to
MeshOf(name) == IF name \in {InputTransform, InputShape} THEN InputTransform ELSE DefaultOutput

objExists(name) ==
    /\ name \in Transforms \cup {ShapeOf(t) : t \in Transforms}
    /\ meshes[MeshOf(name)].exists

nodeType(name) == IF name \in Transforms THEN "transform" ELSE "mesh"

force_get_shape(node) ==
    IF nodeType(node) = "transform" THEN ShapeOf(node) ELSE node

\* cmds.xform(joint, q=True, matrix=True, worldSpace=True) with the cursor at time t
xform(joint, t) == jointAnim[joint][t]

\* MMatrix.inverse(): the inverse; of a singular matrix, what the library returns
\* when it does not raise (it raises when singularInverse = "raise")
inverse(m) ==
    IF IsSingular(m)
    THEN (IF singularInverse = "identity" THEN Identity ELSE m)
    ELSE TrueInverse(m)

InverseRaises(m) == singularInverse = "raise" /\ IsSingular(m)

(***************************************************************************)
(* reconstruct_bind_mesh: the per-vertex computation (lines 168-181)       *)
(***************************************************************************)
\* mutant of vertex_weights: always the first row
vertex_weights_first(k) == SubSeq(weights, 1, num_influences)

\* weights[i:i + num_influences]
vertex_weights(k) == SubSeq(weights, k + 1, k + num_influences)

\* mutant of Contributes: no test of the weight
ContributesAlways(weight) == TRUE

\* line 173: if weight > 0.0
Contributes(weight) == weight[1] > 0

\* mutants of skin_matrix: the product in the other order; the bind pose ignored
skin_matrix_swapped(bind_joint_matrix, current_joint_matrix) ==
    MatMul(current_joint_matrix, inverse(bind_joint_matrix))

skin_matrix_unbound(bind_joint_matrix, current_joint_matrix) == current_joint_matrix

\* bind_joint_matrix.inverse() * current_joint_matrix
skin_matrix(bind_joint_matrix, current_joint_matrix) ==
    MatMul(inverse(bind_joint_matrix), current_joint_matrix)

\* the inner loop over enumerate(vertex_weights), up to index j, with the cached
\* poses bp (bind) and dp (deformed)
RECURSIVE blend(_, _, _, _)
blend(vw, j, bp, dp) ==
    IF j = 0 THEN MMatrix(Zero16)
    ELSE IF Contributes(vw[j])
         THEN MatAdd(blend(vw, j - 1, bp, dp),
                     MatScale(vw[j], skin_matrix(bp[joints[j]], dp[joints[j]])))
         ELSE blend(vw, j - 1, bp, dp)

weighted_skin_matrix(vw, bp, dp) == blend(vw, Len(vw), bp, dp)

\* cur_vertex * weighted_skin_matrix.inverse()
bind_vertex(cur_vertex, vw, bp, dp) ==
    PointMul(cur_vertex, inverse(weighted_skin_matrix(vw, bp, dp)))

\* the influences whose bind matrix is inverted for this vertex: those the inner
\* loop reaches before an inverse raises
Inverted(vw, bp) ==
    {j \in 1..Len(vw) :
        /\ Contributes(vw[j])
        /\ \A h \in 1..(j - 1) :
              Contributes(vw[h]) => ~InverseRaises(bp[joints[h]])}

\* whether the computation of this vertex raises
VertexRaises(vw, bp, dp) ==
    IF \E j \in 1..Len(vw) : Contributes(vw[j]) /\ InverseRaises(bp[joints[j]])
    THEN TRUE
    ELSE InverseRaises(weighted_skin_matrix(vw, bp, dp))

(***************************************************************************)
(* get_skin_weights / set_skin_weights (lines 31-88)                       *)
(***************************************************************************)
\* the geometry on skinCluster.outputGeometry[0]
connected_geometries(cluster) == skinClusters[cluster].geometry

\* MFnSkinCluster.getWeights with an empty component: the whole flat array;
\* influence_indices = range(len(influence_objects))
get_skin_weights(cluster) ==
    [weights |-> skinClusters[cluster].weights,
     influence_indices |-> [k \in 1..Len(skinClusters[cluster].influences) |-> k - 1]]

RECURSIVE RowSum(_, _, _)
RowSum(w, first, n) == IF n = 0 THEN RInt(0) ELSE RAdd(RowSum(w, first, n - 1), w[first + n])

\* MFnSkinCluster.setWeights(path, components, influences, weights) leaves its
\* normalize parameter at the default, True: each vertex's weights are written to
\* the listed influences and the vertex is then normalized to sum 1
setWeights(old, n, idx, w) ==
    LET k == Len(idx)
        written == [p \in 1..Len(old) |->
                       LET v == (p - 1) \div n
                           inf == (p - 1) % n
                           hit == {q \in 1..k : idx[q] = inf}
                       IN  IF hit = {} \/ v * k + k > Len(w) THEN old[p]
                           ELSE w[v * k + (CHOOSE q \in hit : TRUE)]]
    IN  [p \in 1..Len(old) |->
            LET first == ((p - 1) \div n) * n
                total == RowSum(written, first, n)
            IN  IF total[1] = 0 THEN written[p] ELSE RDiv(written[p], total)]

set_skin_weights(cluster, w, idx) ==
    [skinClusters EXCEPT ![cluster].weights =
        setWeights(@, Len(skinClusters[cluster].influences), idx, w)]

\* cmds.skinCluster(joints, mesh, toSelectedBones=True, bindMethod=0, skinMethod=0):
\* a new cluster on the mesh, every vertex bound to the influences in the given order
NewSkinCluster(js, mesh) ==
    [exists |-> TRUE, influences |-> js,
     weights |-> Flatten([v \in 1..Len(meshes[mesh].points) |->
                            [k \in 1..Len(js) |-> IF k = 1 THEN RInt(1) ELSE RInt(0)]],
                         Len(meshes[mesh].points)),
     geometry |-> mesh]

(***************************************************************************)
(* Initial states: the scene when reconstruct_bind_mesh is called          *)
(***************************************************************************)
SkinnedInput == [exists |-> TRUE, points |-> SourcePoints, inputs |-> <<GroupPlug, SkinPlug>>]
UnskinnedInputs == {[exists |-> TRUE, points |-> SourcePoints, inputs |-> <<>>],
                    [exists |-> TRUE, points |-> SourcePoints, inputs |-> <<HistoryPlug>>]}
StaleOutput == [exists |-> TRUE, points |-> StalePoints, inputs |-> <<>>]

Init ==
    /\ \E m \in {SkinnedInput} \cup UnskinnedInputs, old \in {NoMesh, StaleOutput} :
          /\ meshes = [t \in Transforms |-> IF t = InputTransform THEN m ELSE old]
          /\ \E table \in WeightTables :
                skinClusters =
                    [c \in Clusters |->
                        IF c = SourceCluster /\ m = SkinnedInput
                        THEN [exists |-> TRUE, influences |-> Joints,
                              weights |-> table, geometry |-> InputTransform]
                        ELSE NoCluster]
    /\ currentTime = ref_time
    /\ jointAnim \in Animations
    /\ singularInverse \in SingularOutcomes
    /\ output_mesh \in {DefaultOutput, InputTransform}
    /\ pc = "start"
    /\ error = None
    /\ input_mesh \in {InputTransform, InputShape}
    /\ num_vertices = 0
    /\ duplicate_mesh = None
    /\ skin_cluster_name = None
    /\ joints = <<>>
    /\ cached_bind_pose = <<>>
    /\ cached_deformed_pose = <<>>
    /\ source_points = <<>>
    /\ weights = <<>>
    /\ num_influences = 0
    /\ influence_indices = <<>>
    /\ bind_verts = <<>>
    /\ vertex_index = 0
    /\ i = 0
    /\ target_skin_cluster_name = None
    /\ pre = [meshes |-> meshes, skinClusters |-> skinClusters, currentTime |-> currentTime]
    /\ timeLog = <<>>
    /\ inverseCalls = {}

(***************************************************************************)
(* reconstruct_bind_mesh, statement by statement                           *)
(***************************************************************************)
\* lines 106-115: resolve the shape, read its vertex count
Resolve ==
    /\ pc = "start"
    /\ input_mesh' = force_get_shape(input_mesh)
    /\ num_vertices' = Len(meshes[MeshOf(force_get_shape(input_mesh))].points)
    /\ pc' = "deleteOutput"
    /\ UNCHANGED <<scene, world, poses, loop, error, duplicate_mesh, skin_cluster_name,
                   influence_indices, target_skin_cluster_name, timeLog, inverseCalls>>

\* lines 117-118: delete the output mesh if it already exists (a deleted mesh
\* takes its skin cluster with it)
DeleteOutput ==
    /\ pc = "deleteOutput"
    /\ IF objExists(output_mesh)
       THEN /\ meshes' = [meshes EXCEPT ![MeshOf(output_mesh)] = NoMesh]
            /\ skinClusters' =
                  [c \in Clusters |->
                      IF skinClusters[c].geometry = MeshOf(output_mesh)
                      THEN NoCluster ELSE skinClusters[c]]
       ELSE UNCHANGED <<meshes, skinClusters>>
    /\ pc' = "duplicate"
    /\ UNCHANGED <<currentTime, world, poses, loop, error, input_mesh, num_vertices,
                   duplicate_mesh, skin_cluster_name, influence_indices,
                   target_skin_cluster_name, timeLog, inverseCalls>>

\* lines 122-124: duplicate the input mesh and rename the copy to output_mesh;
\* cmds.duplicate raises when the input no longer exists
Duplicate ==
    /\ pc = "duplicate"
    /\ IF objExists(input_mesh)
       THEN /\ meshes' = [meshes EXCEPT ![output_mesh] =
                            [exists |-> TRUE,
                             points |-> meshes[MeshOf(input_mesh)].points,
                             inputs |-> <<>>]]
            /\ duplicate_mesh' = output_mesh
            /\ pc' = "findSkin"
            /\ error' = error
       ELSE /\ pc' = "raised"
            /\ error' = "ValueError"
            /\ UNCHANGED <<meshes, duplicate_mesh>>
    /\ UNCHANGED <<skinClusters, currentTime, world, poses, loop, input_mesh, num_vertices,
                   skin_cluster_name, influence_indices, target_skin_cluster_name,
                   timeLog, inverseCalls>>

\* the first skinCluster among the plugs feeding the shape
FirstSkinCluster(connections) ==
    LET hits == {k \in 1..Len(connections) : connections[k].type = "skinCluster"}
    IN  IF hits = {} THEN None
        ELSE SourceCluster

\* lines 126-135: listConnections returns None when nothing is connected, and the
\* for loop over None raises TypeError
FindSkin ==
    /\ pc = "findSkin"
    /\ LET connections == meshes[MeshOf(input_mesh)].inputs
       IN  IF connections = <<>>
           THEN /\ pc' = "raised"
                /\ error' = "TypeError"
                /\ UNCHANGED skin_cluster_name
           ELSE /\ skin_cluster_name' = FirstSkinCluster(connections)
                /\ pc' = IF FirstSkinCluster(connections) # None
                         THEN "queryJoints" ELSE "noSkin"
                /\ error' = error
    /\ UNCHANGED <<scene, world, poses, loop, input_mesh, num_vertices, duplicate_mesh,
                   influence_indices, target_skin_cluster_name, timeLog, inverseCalls>>

\* line 137
QueryJoints ==
    /\ pc = "queryJoints"
    /\ joints' = skinClusters[skin_cluster_name].influences
    /\ pc' = "bindPose"
    /\ UNCHANGED <<scene, world, cached_bind_pose, cached_deformed_pose, loop, error,
                   input_mesh, num_vertices, duplicate_mesh, skin_cluster_name,
                   influence_indices, target_skin_cluster_name, timeLog, inverseCalls>>

\* lines 142-146: move the cursor to bind_pose_time and cache every joint's matrix
CacheBindPose ==
    /\ pc = "bindPose"
    /\ currentTime' = bind_pose_time
    /\ timeLog' = Append(timeLog, [time |-> bind_pose_time, done |-> vertex_index,
                                    at |-> "pose"])
    /\ cached_bind_pose' =
          [j \in {joints[k] : k \in 1..Len(joints)} |-> xform(j, bind_pose_time)]
    /\ pc' = "deformedPose"
    /\ UNCHANGED <<meshes, skinClusters, world, joints, cached_deformed_pose, loop, error,
                   input_mesh, num_vertices, duplicate_mesh, skin_cluster_name,
                   influence_indices, target_skin_cluster_name, inverseCalls>>

\* lines 149-153: move the cursor to deformed_time and cache every joint's matrix
CacheDeformedPose ==
    /\ pc = "deformedPose"
    /\ currentTime' = ref_time
    /\ timeLog' = Append(timeLog, [time |-> ref_time, done |-> vertex_index,
                                    at |-> "pose"])
    /\ cached_deformed_pose' =
          [j \in {joints[k] : k \in 1..Len(joints)} |-> xform(j, ref_time)]
    /\ pc' = "source"
    /\ UNCHANGED <<meshes, skinClusters, world, joints, cached_bind_pose, loop, error,
                   input_mesh, num_vertices, duplicate_mesh, skin_cluster_name,
                   influence_indices, target_skin_cluster_name, inverseCalls>>

\* lines 156-167: read the source points and the source weights
GetSource ==
    /\ pc = "source"
    /\ source_points' = [k \in 1..Len(meshes[MeshOf(input_mesh)].points) |->
                            AsMPoint(meshes[MeshOf(input_mesh)].points[k])]
    /\ weights' = skinClusters[skin_cluster_name].weights
    /\ num_influences' = Len(skinClusters[skin_cluster_name].influences)
    /\ bind_verts' = <<>>
    /\ vertex_index' = 0
    /\ i' = 0
    /\ pc' = "loop"
    /\ UNCHANGED <<scene, world, poses, error, input_mesh, num_vertices, duplicate_mesh,
                   skin_cluster_name, influence_indices, target_skin_cluster_name,
                   timeLog, inverseCalls>>

\* lines 168-181: one iteration of the loop over the weight rows
LoopStep ==
    /\ pc = "loop"
    /\ i < Len(weights)
    /\ LET vw == vertex_weights(i)
           cur_vertex == source_points[vertex_index + 1]
       IN  /\ inverseCalls' = inverseCalls \cup
                  {<<vertex_index, j>> : j \in Inverted(vw, cached_bind_pose)}
           /\ IF VertexRaises(vw, cached_bind_pose, cached_deformed_pose)
              THEN /\ pc' = "raised"
                   /\ error' = "RuntimeError"
                   /\ UNCHANGED <<bind_verts, vertex_index, i>>
              ELSE /\ bind_verts' = Append(bind_verts,
                             bind_vertex(cur_vertex, vw, cached_bind_pose,
                                         cached_deformed_pose))
                   /\ vertex_index' = vertex_index + 1
                   /\ i' = i + num_influences
                   /\ UNCHANGED <<pc, error>>
    /\ UNCHANGED <<scene, world, poses, source_points, weights, num_influences,
                   input_mesh, num_vertices, duplicate_mesh, skin_cluster_name,
                   influence_indices, target_skin_cluster_name, timeLog>>

\* line 183: the loop is over; write all points to the duplicate
SetPoints ==
    /\ pc = "loop"
    /\ i >= Len(weights)
    /\ meshes' = [meshes EXCEPT ![duplicate_mesh].points =
                    [k \in 1..Len(bind_verts) |-> Stored(bind_verts[k])]]
    /\ pc' = "rebind"
    /\ UNCHANGED <<skinClusters, currentTime, world, poses, loop, error, input_mesh,
                   num_vertices, duplicate_mesh, skin_cluster_name, influence_indices,
                   target_skin_cluster_name, timeLog, inverseCalls>>

\* mutant of RebindTime: the cursor is left at the deformed time
RebindTime_NoMove ==
    /\ pc = "rebind"
    /\ pc' = "getWeights"
    /\ UNCHANGED <<scene, world, poses, loop, error, input_mesh, num_vertices,
                   duplicate_mesh, skin_cluster_name, influence_indices,
                   target_skin_cluster_name, timeLog, inverseCalls>>

\* lines 186-187: back to bind_pose_time for the new binding
RebindTime ==
    /\ pc = "rebind"
    /\ currentTime' = bind_pose_time
    /\ timeLog' = Append(timeLog, [time |-> bind_pose_time, done |-> vertex_index,
                                    at |-> "rebind"])
    /\ pc' = "getWeights"
    /\ UNCHANGED <<meshes, skinClusters, world, poses, loop, error, input_mesh,
                   num_vertices, duplicate_mesh, skin_cluster_name, influence_indices,
                   target_skin_cluster_name, inverseCalls>>

\* line 188: weights, influence_indices = get_skin_weights(skin_cluster_name)
GetSkinWeights ==
    /\ pc = "getWeights"
    /\ IF connected_geometries(skin_cluster_name) = None
       THEN /\ pc' = "raised"
            /\ error' = "ValueError"
            /\ UNCHANGED <<weights, influence_indices>>
       ELSE /\ weights' = get_skin_weights(skin_cluster_name).weights
            /\ influence_indices' = get_skin_weights(skin_cluster_name).influence_indices
            /\ pc' = "createSkin"
            /\ error' = error
    /\ UNCHANGED <<scene, world, poses, source_points, num_influences, bind_verts,
                   vertex_index, i, input_mesh, num_vertices, duplicate_mesh,
                   skin_cluster_name, target_skin_cluster_name, timeLog, inverseCalls>>

\* line 189: bind the duplicate to the joints
CreateSkinCluster ==
    /\ pc = "createSkin"
    /\ skinClusters' = [skinClusters EXCEPT ![TargetCluster] =
                          NewSkinCluster(joints, duplicate_mesh)]
    /\ meshes' = [meshes EXCEPT ![duplicate_mesh].inputs =
                    <<[plug |-> "skinCluster2.outputGeometry[0]", type |-> "skinCluster"]>>]
    /\ target_skin_cluster_name' = TargetCluster
    /\ pc' = "setWeights"
    /\ UNCHANGED <<currentTime, world, poses, loop, error, input_mesh, num_vertices,
                   duplicate_mesh, skin_cluster_name, influence_indices, timeLog,
                   inverseCalls>>

\* line 190: set_skin_weights(target_skin_cluster_name, weights, influence_indices)
SetSkinWeights ==
    /\ pc = "setWeights"
    /\ skinClusters' = set_skin_weights(target_skin_cluster_name, weights, influence_indices)
    /\ pc' = "finish"
    /\ UNCHANGED <<meshes, currentTime, world, poses, loop, error, input_mesh,
                   num_vertices, duplicate_mesh, skin_cluster_name, influence_indices,
                   target_skin_cluster_name, timeLog, inverseCalls>>

\* lines 192-193: print("No skinCluster found for the mesh.")
NoSkin ==
    /\ pc = "noSkin"
    /\ pc' = "finish"
    /\ UNCHANGED <<scene, world, poses, loop, error, input_mesh, num_vertices,
                   duplicate_mesh, skin_cluster_name, influence_indices,
                   target_skin_cluster_name, timeLog, inverseCalls>>

\* lines 195-198: report the elapsed time and return
Finish ==
    /\ pc = "finish"
    /\ pc' = "done"
    /\ UNCHANGED <<scene, world, poses, loop, error, input_mesh, num_vertices,
                   duplicate_mesh, skin_cluster_name, influence_indices,
                   target_skin_cluster_name, timeLog, inverseCalls>>

Next ==
    \/ Resolve \/ DeleteOutput \/ Duplicate \/ FindSkin \/ QueryJoints
    \/ CacheBindPose \/ CacheDeformedPose \/ GetSource \/ LoopStep \/ SetPoints
    \/ RebindTime \/ GetSkinWeights \/ CreateSkinCluster \/ SetSkinWeights
    \/ NoSkin \/ Finish

Spec == Init /\ [][Next]_vars

(***************************************************************************)
(* Properties                                                              *)
(***************************************************************************)
Terminated == pc \in {"done", "raised"}

\* the input mesh had a skin cluster when reconstruct_bind_mesh was called
InputSkinned == pre.skinClusters[SourceCluster].exists

\* the points have been written to the duplicate (line 183 has run)
Committed == pc \in {"rebind", "getWeights", "createSkin", "setWeights", "finish", "done"}
             /\ skin_cluster_name # None

\* vertex v's weights (v counted from 1) in the input's skin cluster at the call
SourceRow(v) ==
    SubSeq(pre.skinClusters[SourceCluster].weights,
           (v - 1) * Len(Joints) + 1, v * Len(Joints))

IsZeroRow(row) == \A k \in 1..Len(row) : row[k][1] = 0

JointSet == {Joints[k] : k \in 1..Len(Joints)}
JointIndex(j) == CHOOSE k \in 1..Len(Joints) : Joints[k] = j

\* the joints' world matrices at the two times, read from the animation itself
BindPoseAtCall == [j \in JointSet |-> jointAnim[j][bind_pose_time]]
DeformedPoseAtCall == [j \in JointSet |-> jointAnim[j][ref_time]]

\* the point <<x, y, z>> moved by -t
Minus(v, t) == <<RAdd(v[1], RInt(-t[1])), RAdd(v[2], RInt(-t[2])), RAdd(v[3], RInt(-t[3]))>>

\* C1 (as claimed): when some vertex of the input mesh has all-zero weights, the
\* run ends by raising DegenerateInfluenceError and no output mesh is in the scene.
C1_DegenerateRejection ==
    (/\ Terminated
     /\ InputSkinned
     /\ output_mesh = DefaultOutput
     /\ \E v \in 1..NumVerts : IsZeroRow(SourceRow(v)))
    => (/\ pc = "raised"
        /\ error = "DegenerateInfluenceError"
        /\ ~meshes[DefaultOutput].exists)

\* C2 (as claimed): after a run that failed (the output name not being the
\* input's), the output mesh is exactly as it was before the call, or absent.
C2_AtomicCommit ==
    (pc = "raised" /\ output_mesh = DefaultOutput)
    => \/ ~meshes[MeshOf(output_mesh)].exists
       \/ meshes[MeshOf(output_mesh)] = pre.meshes[MeshOf(output_mesh)]

\* C3 (as claimed): when the input mesh has no skin binding (the output name not
\* being the input's), the run ends without raising and the scene (meshes, skin
\* clusters, timeline cursor) is as before.
C3_NoSkinNoOp ==
    (Terminated /\ ~InputSkinned /\ output_mesh = DefaultOutput)
    => (/\ pc = "done"
        /\ error = None
        /\ meshes = pre.meshes
        /\ skinClusters = pre.skinClusters
        /\ currentTime = pre.currentTime)

\* C4: a vertex whose only non-zero weight is 1 on joint J is reconstructed as
\* deformedVertex * inverse(inverse(B[J]) * D[J]); when J moved by the translation
\* (0,0,5) between the two times that is deformedVertex - (0,0,5), whatever the
\* other joint's matrices; and this is the point written to the output mesh.
C4_SingleInfluence ==
    pc \in {"loop", "done"} =>
    \A v \in 1..Len(bind_verts) : \A k \in 1..Len(joints) :
        (/\ SourceRow(v)[k] = RInt(1)
         /\ \A h \in 1..Len(joints) : h # k => SourceRow(v)[h] = RInt(0))
        => LET B == cached_bind_pose[joints[k]]
               D == cached_deformed_pose[joints[k]]
           IN  /\ bind_verts[v] =
                     PointMul(source_points[v], inverse(MatMul(inverse(B), D)))
               /\ (~IsSingular(B) /\ D = MatMul(B, Translate5))
                  => Stored(bind_verts[v]) =
                        Minus(pre.meshes[InputTransform].points[v], <<0, 0, 5>>)
               /\ Committed => meshes[duplicate_mesh].points[v] = Stored(bind_verts[v])

C4_Witness ==
    /\ pc = "done"
    /\ InputSkinned
    /\ output_mesh = DefaultOutput
    /\ \A v \in 1..NumVerts : SourceRow(v) = <<RInt(1), RInt(0)>>
    /\ jointAnim[Joints[1]][bind_pose_time] = Identity
    /\ jointAnim[Joints[1]][ref_time] = Translate5
    /\ jointAnim[Joints[2]][bind_pose_time] = Flat
    /\ \A v \in 1..NumVerts :
          meshes[DefaultOutput].points[v] = Minus(SourcePoints[v], <<0, 0, 5>>)

\* no joint moved between the two sampled times
PosesEqual ==
    /\ pc \in {"loop", "done"}
    /\ Len(bind_verts) > 0
    /\ \A j \in JointSet : cached_bind_pose[j] = cached_deformed_pose[j]

\* C5 (as claimed): when no joint moved between the two times (every joint matrix
\* invertible), every reconstructed position equals its source position, for any
\* non-negative weights (not all zero), summing to 1 or not.
C5_RoundTripAnyWeights ==
    (PosesEqual /\ \A j \in JointSet : ~IsSingular(cached_bind_pose[j]))
    => \A v \in 1..Len(bind_verts) :
          ~IsZeroRow(SourceRow(v))
          => Stored(bind_verts[v]) = Stored(source_points[v])

\* C5 (amended): when no joint moved between the two times, every vertex whose
\* weights sum to 1 and whose weighted joints have invertible matrices is
\* reconstructed at its source position, in the list and in the output mesh.
C5_RoundTripNormalized ==
    PosesEqual
    => \A v \in 1..Len(bind_verts) :
          (/\ RowSum(SourceRow(v), 0, Len(Joints)) = RInt(1)
           /\ \A k \in 1..Len(Joints) :
                 SourceRow(v)[k][1] > 0 => ~IsSingular(cached_bind_pose[Joints[k]]))
          => /\ Stored(bind_verts[v]) = pre.meshes[InputTransform].points[v]
             /\ Committed =>
                   meshes[duplicate_mesh].points[v] = pre.meshes[InputTransform].points[v]

C5_Witness ==
    /\ pc = "done"
    /\ InputSkinned
    /\ output_mesh = DefaultOutput
    /\ \A j \in JointSet : \A t \in Times : jointAnim[j][t] = RotScale
    /\ SourceRow(1) = <<Rat(1, 2), Rat(1, 2)>>
    /\ meshes[DefaultOutput].points[1] = SourcePoints[1]

\* C6: the points written to the output mesh are as many as the input mesh has
\* vertices, and entry v is the reconstruction of source position v with weight
\* row v.
C6_VertexCountAndIndex ==
    (Committed /\ pc \in {"rebind", "done"})
    => /\ Len(meshes[duplicate_mesh].points) = Len(pre.meshes[InputTransform].points)
       /\ Len(meshes[duplicate_mesh].points) = num_vertices
       /\ \A v \in 1..Len(meshes[duplicate_mesh].points) :
             meshes[duplicate_mesh].points[v] =
                Stored(bind_vertex(AsMPoint(pre.meshes[InputTransform].points[v]),
                                   SourceRow(v), BindPoseAtCall, DeformedPoseAtCall))

C6_Witness ==
    /\ pc = "done"
    /\ InputSkinned
    /\ output_mesh = DefaultOutput
    /\ Len(meshes[DefaultOutput].points) = NumVerts
    /\ SourceRow(1) = <<RInt(1), RInt(0)>>
    /\ SourceRow(NumVerts) # SourceRow(1)
    /\ jointAnim[Joints[1]][ref_time] = Translate5
    /\ jointAnim[Joints[2]][ref_time] = RotScale
    /\ meshes[DefaultOutput].points[1] = Minus(SourcePoints[1], <<0, 0, 5>>)

\* C7 (as claimed): after the transfer, the weights read back from the target
\* skin cluster equal the source skin cluster's, for every vertex and influence.
C7_WeightTransferFidelity ==
    (pc \in {"finish", "done"} /\ target_skin_cluster_name # None)
    => get_skin_weights(target_skin_cluster_name).weights =
          get_skin_weights(skin_cluster_name).weights

BindMove == [time |-> bind_pose_time, done |-> 0, at |-> "pose"]
DeformedMove == [time |-> ref_time, done |-> 0, at |-> "pose"]
RebindMove == [time |-> bind_pose_time, done |-> num_vertices, at |-> "rebind"]

\* C8 (as claimed): the cursor is moved exactly twice in a run, to the bind-pose
\* time and then to the deformed-pose time, both before the first per-vertex
\* computation and none during or after it.
C8_CursorMovedTwice ==
    /\ Len(timeLog) <= 2
    /\ \A k \in 1..Len(timeLog) : timeLog[k].done = 0
    /\ (pc = "done" /\ skin_cluster_name # None) => timeLog = <<BindMove, DeformedMove>>

\* C8 (amended): in a run on a skinned mesh the cursor is moved to the bind-pose
\* time and then to the deformed-pose time before the first per-vertex
\* computation, stays there during the per-vertex computation, and is moved once
\* more, to the bind-pose time, after the last vertex is computed and the points
\* are written: three moves in a completed run, none without a skin binding.
C8_CursorProtocol ==
    /\ pc = "loop" => (timeLog = <<BindMove, DeformedMove>> /\ currentTime = ref_time)
    /\ pc = "rebind" => timeLog = <<BindMove, DeformedMove>>
    /\ (pc = "done" /\ skin_cluster_name # None)
       => (/\ timeLog = <<BindMove, DeformedMove, RebindMove>>
           /\ num_vertices = Len(bind_verts))
    /\ (pc = "done" /\ skin_cluster_name = None) => timeLog = <<>>
    /\ Len(timeLog) <= 3

C8_Witness ==
    /\ pc = "done"
    /\ Len(timeLog) = 3
    /\ timeLog[3].done = NumVerts
    /\ currentTime = bind_pose_time

\* C9 (as claimed): whatever the output name, the input mesh still exists with
\* its vertex positions, and its skin cluster's weights are unchanged.
C9_InputReadOnly ==
    /\ meshes[InputTransform].exists
    /\ meshes[InputTransform].points = pre.meshes[InputTransform].points
    /\ skinClusters[SourceCluster] = pre.skinClusters[SourceCluster]

\* the cached pose with matrix m put in place of every joint that has weight 0 in row
WithZeroWeightJoints(pose, row, m) ==
    [j \in JointSet |-> IF row[JointIndex(j)][1] = 0 THEN m ELSE pose[j]]

\* C10: a bind matrix is inverted for a vertex only for influences of positive
\* weight, and the reconstructed position is the one obtained with any other
\* matrices (a singular one included) for the joints of weight 0, which raise
\* nothing.
C10_ZeroWeightSkipped ==
    /\ \A c \in inverseCalls : SourceRow(c[1] + 1)[c[2]][1] > 0
    /\ pc = "loop" =>
       \A v \in 1..Len(bind_verts) : \A m \in {Flat, Translate5} :
          LET bp == WithZeroWeightJoints(cached_bind_pose, SourceRow(v), m)
              dp == WithZeroWeightJoints(cached_deformed_pose, SourceRow(v), m)
          IN  /\ ~VertexRaises(SourceRow(v), bp, dp)
              /\ bind_verts[v] = bind_vertex(source_points[v], SourceRow(v), bp, dp)

C10_Witness ==
    /\ pc = "done"
    /\ InputSkinned
    /\ output_mesh = DefaultOutput
    /\ singularInverse = "raise"
    /\ SourceRow(1) = <<RInt(1), RInt(0)>>
    /\ cached_bind_pose[Joints[2]] = Flat
    /\ cached_deformed_pose[Joints[1]] = Translate5
    /\ <<0, 1>> \in inverseCalls
    /\ <<0, 2>> \notin inverseCalls
    /\ meshes[DefaultOutput].points[1] = Minus(SourcePoints[1], <<0, 0, 5>>)

====
